---- MODULE Spec2Model ----
(***************************************************************************)
(* State-machine model of the RecogX front end.                            *)
(*                                                                         *)
(* Three React components are modelled, one mounted per behaviour:         *)
(*   IT  InstructionTab of src/components/instruction-tab.tsx              *)
(*       (task setup with images, banners, webcam, tracking captures)      *)
(*   TM  InstructionTab of src/unnamed/part_000, lines 23-228              *)
(*       (task setup with the saved-task list: load, save, delete)         *)
(*   OD  ObjectDetectionTab of src/unnamed/part_000, lines 261-693         *)
(*       (webcam, periodic capture timer, detection requests)              *)
(*                                                                         *)
(* Every await of the source is a suspension point: the part of a handler  *)
(* before it is one action, the part after it another one, which reads     *)
(* the values its closure captured when the handler was called.            *)
(* Strings are sequences of one-character strings.                         *)
(***************************************************************************)
EXTENDS Integers, Sequences, FiniteSets, TLC

\* ------------------------------------------------------------------ bounds
MaxSteps == 2         \* steps a draft may grow to by addInstructionStep
MaxInflight == 2      \* requests of one component that may be in flight together
MaxStreams == 2       \* camera streams a component may hold or be acquiring together
MaxResponses == 2     \* ResponseItems created in one behaviour
MaxFrames == 2        \* capture ticks in one behaviour
MaxReads == 1         \* FileReader reads that may be in flight together

\* ------------------------------------------------------------------ values
Null == "null"
\* a value that may be absent and is not a string: <<>> when absent, <<v>> when present
None == <<>>
Some(v) == << v >>
NoImage == "undefined"
SP == " "

\* texts a user can type into the title field or a step's textarea
Texts == { <<>>, <<SP>>, <<"a">> }

\* String.prototype.trim: drops leading and trailing white space
RECURSIVE TrimLeft(_)
TrimLeft(s) == IF s = <<>> THEN <<>>
               ELSE IF Head(s) = SP THEN TrimLeft(Tail(s)) ELSE s

RECURSIVE TrimRight(_)
TrimRight(s) == IF s = <<>> THEN <<>>
                ELSE IF s[Len(s)] = SP THEN TrimRight(SubSeq(s, 1, Len(s) - 1)) ELSE s

Trim(s) == TrimRight(TrimLeft(s))

\* a validation that forgets trim()
IsBlank_NoTrim(text) == text = <<>>

\* !text.trim(): the empty string is falsy
IsBlank(text) == Trim(text) = <<>>

\* instructionSteps.some((step) => !step.text.trim())
SomeStepBlank(steps) == \E i \in 1..Len(steps) : IsBlank(steps[i].text)

\* Array.prototype.filter((step) => step.id !== id), also used for tasks
RECURSIVE FilterOutId(_, _)
FilterOutId(list, id) ==
    IF list = <<>> THEN <<>>
    ELSE IF Head(list).id = id THEN FilterOutId(Tail(list), id)
         ELSE <<Head(list)>> \o FilterOutId(Tail(list), id)

\* { id: `step-${n}`, text }: the id "step-n" is modelled by the number n
NewStep(n, text) == [id |-> n, text |-> text, image |-> NoImage]

\* [...instructionSteps, { id: `step-${instructionSteps.length + 1}`, text: "" }]
AppendStep(steps) == Append(steps, NewStep(Len(steps) + 1, <<>>))

\* instructionSteps.map((step) => (step.id === id ? { ...step, text } : step))
WithStepText(steps, id, text) ==
    [i \in 1..Len(steps) |->
        IF steps[i].id = id THEN [steps[i] EXCEPT !.text = text] ELSE steps[i]]

\* instructionSteps.map((step) => (step.id === id ? { ...step, image } : step))
WithStepImage(steps, id, image) ==
    [i \in 1..Len(steps) |->
        IF steps[i].id = id THEN [steps[i] EXCEPT !.image = image] ELSE steps[i]]

\* a map that stops one step early
StepsFromTask_DropsLast(task) ==
    [i \in 1..(Len(task.steps) - 1) |-> NewStep(i, task.steps[i])]

\* task.steps.map((step, index) => ({ id: `step-${index + 1}`, text: step }))
StepsFromTask(task) == [i \in 1..Len(task.steps) |-> NewStep(i, task.steps[i])]

\* instructionSteps.forEach((step) => formData.append("instructions", step.text))
StepTexts(steps) == [i \in 1..Len(steps) |-> steps[i].text]

InitialSteps == << NewStep(1, <<>>) >>

StepIds(steps) == { steps[i].id : i \in 1..Len(steps) }

\* ------------------------------------------------------------------ state
VARIABLES
    mounted,              \* which component the page shows: "IT", "TM", "OD"
    lastOp,               \* the handler or continuation that ran last: its name, the
                          \* arguments the properties read, the alert() it showed
    \* TM: InstructionTab of part_000
    tm_taskTitle,
    tm_instructionSteps,
    tm_tasks,             \* [kind |-> "array", items |-> <<Task...>>] or the parsed error body
    tm_isSubmittingTask,
    tm_isSavingTask,
    tm_fetchPending,      \* the mount effect's GET /instruction/tasks/ is in flight
    tm_savePhase,         \* "idle", "post" (POST in flight), "refresh" (GET in flight)
    tm_submitPending,     \* POST /instruction/setup/ is in flight
    tm_deletes            \* DELETEs in flight, in the order sent: [taskId, tasks], the
                          \* arguments and the `tasks` array the closure captured

VARIABLES
    \* IT: InstructionTab of components/instruction-tab.tsx
    it_taskTitle,
    it_instructionSteps,
    it_isTaskSubmitted,
    it_isSubmittingTask,
    it_isWebcamActive,
    it_isCapturing,
    it_responses,         \* ResponseItem list, newest first
    it_error,             \* error banner text or Null
    it_success,           \* success banner text or Null
    it_srcObject,         \* videoRef.current.srcObject: "stream" or Null (also Null while
                          \* no video element is rendered)
    it_orphans,           \* live streams the component acquired that no video element holds
    it_pendingStarts,     \* getUserMedia calls not settled yet
    it_submitPhase,       \* "idle", "images" (awaiting fetch(step.image)), "post"
    it_resets,            \* POST /reset/ in flight: [isWebcamActive], the value captured
    it_reads,             \* FileReader reads in flight: [id, steps, image], the arguments
                          \* and the `instructionSteps` array the onload closure captured
    it_capturePhase,      \* "idle", "encoding" (toBlob pending), "no_blob" (toBlob gave
                          \* null: the promise never settles), "fetching"
    it_clock              \* number of ResponseItems created so far (Date.now() in their id)

varsIT == << it_taskTitle, it_instructionSteps, it_isTaskSubmitted, it_isSubmittingTask,
             it_isWebcamActive, it_isCapturing, it_responses, it_error, it_success,
             it_srcObject, it_orphans, it_pendingStarts, it_submitPhase, it_resets,
             it_reads, it_capturePhase, it_clock >>

VARIABLES
    \* OD: ObjectDetectionTab of part_000
    od_returnedImage,     \* annotated image: Some([frame, objects, labels]) or None
    od_error,
    od_detectedObjects,
    od_captureInterval,
    od_performanceMetrics,
    od_lastProcessedTime, \* None, or Some(frame), the frame whose request set the time
    od_isStreaming,
    od_srcObject,         \* videoRef.current.srcObject: "stream" or Null
    od_orphans,           \* live streams the component acquired that no video element holds
    od_starts,            \* getUserMedia calls not settled: [captureInterval], the value
                          \* the closure of startFrameCapture captured
    od_intervalRef,       \* intervalRef.current: Some(period) or None
    od_timers,            \* intervals set and not cleared
    od_canvas,            \* frame held by the capture canvas (0: none drawn)
    od_frameClock,        \* frames drawn so far
    od_cycles             \* captureAndSendFrame calls in flight: [phase, frame, live],
                          \* phase "encoding" (toBlob pending) or "fetching" (POST in
                          \* flight), live: the POST was sent while isStreaming was true

varsOD == << od_returnedImage, od_error, od_detectedObjects, od_captureInterval,
             od_performanceMetrics, od_lastProcessedTime, od_isStreaming, od_srcObject,
             od_orphans, od_starts, od_intervalRef, od_timers, od_canvas, od_frameClock,
             od_cycles >>

varsTM == << tm_taskTitle, tm_instructionSteps, tm_tasks, tm_isSubmittingTask,
             tm_isSavingTask, tm_fetchPending, tm_savePhase, tm_submitPending, tm_deletes >>

vars == << mounted, lastOp, varsTM, varsIT, varsOD >>

\* ------------------------------------------------------------------ remote service
\* Task arrays GET /instruction/tasks/ may answer with
TeaTask == [id |-> "t1", title |-> <<"a">>, steps |-> << <<"a">>, <<"b">> >>]
BareTask == [id |-> "t2", title |-> <<"b">>, steps |-> <<>>]
ServerLists == { <<>>, << TeaTask >>, << TeaTask, BareTask >> }

\* how a request settles: "ok" (2xx), "http_error" (non-2xx), "network_error" (fetch rejects)
Outcomes == { "ok", "http_error", "network_error" }

\* a non-2xx reply carries a JSON body or one that res.json() rejects
ErrorBodies == { "json", "not_json" }

TaskArray(items) == [kind |-> "array", items |-> items]
ErrorObject == [kind |-> "error_object", items |-> <<>>]

\* ------------------------------------------------------------------ TM: initial state
\* useState initial values (part_000 lines 24-29); the mount effect has sent its GET
TM_Initial ==
    /\ tm_taskTitle = <<>>
    /\ tm_instructionSteps = InitialSteps
    /\ tm_tasks = TaskArray(<<>>)
    /\ tm_isSubmittingTask = FALSE
    /\ tm_isSavingTask = FALSE
    /\ tm_fetchPending = TRUE
    /\ tm_savePhase = "idle"
    /\ tm_submitPending = FALSE
    /\ tm_deletes = <<>>

\* requests of TM in flight
TM_Inflight ==
    (IF tm_fetchPending THEN 1 ELSE 0) + (IF tm_savePhase # "idle" THEN 1 ELSE 0)
    + (IF tm_submitPending THEN 1 ELSE 0) + Len(tm_deletes)

\* ------------------------------------------------------------------ TM: actions
\* mount effect, fetchTasks: the reply to GET /instruction/tasks/
TM_fetchTasksResponse(outcome, data) ==
    /\ mounted = "TM"
    /\ tm_fetchPending
    /\ tm_fetchPending' = FALSE
    /\ tm_tasks' = IF outcome = "ok" THEN TaskArray(data) ELSE tm_tasks
    /\ lastOp' = [name |-> "fetchTasksResponse", outcome |-> outcome, alert |-> Null]
    /\ UNCHANGED << mounted, tm_taskTitle, tm_instructionSteps, tm_isSubmittingTask,
                    tm_isSavingTask, tm_savePhase, tm_submitPending, tm_deletes >>

\* onChange of the title input
TM_setTaskTitle(text) ==
    /\ mounted = "TM"
    /\ tm_taskTitle' = text
    /\ lastOp' = [name |-> "setTaskTitle", alert |-> Null]
    /\ UNCHANGED << mounted, tm_instructionSteps, tm_tasks, tm_isSubmittingTask, tm_isSavingTask,
                    tm_fetchPending, tm_savePhase, tm_submitPending, tm_deletes >>

\* loadTask(task), task one of the displayed tasks
TM_loadTask(task) ==
    /\ mounted = "TM"
    /\ \E i \in 1..Len(tm_tasks.items) : tm_tasks.items[i] = task
    /\ tm_taskTitle' = task.title
    /\ tm_instructionSteps' = StepsFromTask(task)
    /\ lastOp' = [name |-> "loadTask", task |-> task, alert |-> Null]
    /\ UNCHANGED << mounted, tm_tasks, tm_isSubmittingTask, tm_isSavingTask,
                    tm_fetchPending, tm_savePhase, tm_submitPending, tm_deletes >>

\* addInstructionStep
TM_addInstructionStep ==
    /\ mounted = "TM"
    /\ Len(tm_instructionSteps) < MaxSteps
    /\ tm_instructionSteps' = AppendStep(tm_instructionSteps)
    /\ lastOp' = [name |-> "addInstructionStep", alert |-> Null]
    /\ UNCHANGED << mounted, tm_taskTitle, tm_tasks, tm_isSubmittingTask, tm_isSavingTask,
                    tm_fetchPending, tm_savePhase, tm_submitPending, tm_deletes >>

\* removeInstructionStep(step.id), clicked on the step rendered at index i
TM_removeInstructionStep(i) ==
    /\ mounted = "TM"
    /\ i \in 1..Len(tm_instructionSteps)
    /\ tm_instructionSteps' =
          IF Len(tm_instructionSteps) <= 1 THEN tm_instructionSteps
          ELSE FilterOutId(tm_instructionSteps, tm_instructionSteps[i].id)
    /\ lastOp' = [name |-> "removeInstructionStep", alert |-> Null]
    /\ UNCHANGED << mounted, tm_taskTitle, tm_tasks, tm_isSubmittingTask, tm_isSavingTask,
                    tm_fetchPending, tm_savePhase, tm_submitPending, tm_deletes >>

\* updateStepText(step.id, text), typed into the step rendered at index i
TM_updateStepText(i, text) ==
    /\ mounted = "TM"
    /\ i \in 1..Len(tm_instructionSteps)
    /\ tm_instructionSteps' = WithStepText(tm_instructionSteps, tm_instructionSteps[i].id, text)
    /\ lastOp' = [name |-> "updateStepText", alert |-> Null]
    /\ UNCHANGED << mounted, tm_taskTitle, tm_tasks, tm_isSubmittingTask, tm_isSavingTask,
                    tm_fetchPending, tm_savePhase, tm_submitPending, tm_deletes >>

\* saveTask up to its first await; the button is disabled while isSavingTask
TM_saveTask ==
    /\ mounted = "TM"
    /\ ~tm_isSavingTask
    /\ IF IsBlank(tm_taskTitle)
       THEN /\ lastOp' = [name |-> "saveTask", alert |-> "Please provide a task title"]
            /\ UNCHANGED << tm_isSavingTask, tm_savePhase >>
       ELSE IF SomeStepBlank(tm_instructionSteps)
       THEN /\ lastOp' = [name |-> "saveTask", alert |-> "All instruction steps must have text"]
            /\ UNCHANGED << tm_isSavingTask, tm_savePhase >>
       ELSE /\ TM_Inflight < MaxInflight
            /\ tm_isSavingTask' = TRUE
            /\ tm_savePhase' = "post"
            /\ lastOp' = [name |-> "saveTask", alert |-> Null]
    /\ UNCHANGED << mounted, tm_taskTitle, tm_instructionSteps, tm_tasks, tm_isSubmittingTask,
                    tm_fetchPending, tm_submitPending, tm_deletes >>

\* saveTask after the POST /instruction/tasks/ settles: on success the refreshing GET is sent
TM_savePostResponse(outcome) ==
    /\ mounted = "TM"
    /\ tm_savePhase = "post"
    /\ IF outcome = "ok"
       THEN /\ tm_savePhase' = "refresh"
            /\ lastOp' = [name |-> "savePostResponse", outcome |-> outcome,
                          alert |-> "Task saved successfully!"]
            /\ UNCHANGED tm_isSavingTask
       ELSE /\ tm_isSavingTask' = FALSE
            /\ tm_savePhase' = "idle"
            /\ lastOp' = [name |-> "savePostResponse", outcome |-> outcome,
                          alert |-> "Failed to save task. Please try again."]
    /\ UNCHANGED << mounted, tm_taskTitle, tm_instructionSteps, tm_tasks, tm_isSubmittingTask,
                    tm_fetchPending, tm_submitPending, tm_deletes >>

\* saveTask after the refreshing GET settles; res.ok is not looked at, so the parsed
\* body of a non-2xx reply becomes `tasks`
TM_saveRefreshResponse(outcome, body, data) ==
    /\ mounted = "TM"
    /\ tm_savePhase = "refresh"
    /\ IF outcome = "ok"
       THEN /\ tm_tasks' = TaskArray(data)
            /\ lastOp' = [name |-> "saveRefreshResponse", outcome |-> outcome, alert |-> Null]
       ELSE IF outcome = "http_error" /\ body = "json"
       THEN /\ tm_tasks' = ErrorObject
            /\ lastOp' = [name |-> "saveRefreshResponse", outcome |-> outcome, alert |-> Null]
       ELSE /\ UNCHANGED tm_tasks
            /\ lastOp' = [name |-> "saveRefreshResponse", outcome |-> outcome,
                          alert |-> "Failed to save task. Please try again."]
    /\ tm_isSavingTask' = FALSE
    /\ tm_savePhase' = "idle"
    /\ UNCHANGED << mounted, tm_taskTitle, tm_instructionSteps, tm_isSubmittingTask,
                    tm_fetchPending, tm_submitPending, tm_deletes >>

\* deleteTask(task.id) up to its await; confirmDelete is the answer to confirm()
TM_deleteTask(i, confirmDelete) ==
    /\ mounted = "TM"
    /\ i \in 1..Len(tm_tasks.items)
    /\ IF confirmDelete
       THEN /\ TM_Inflight < MaxInflight
            /\ tm_deletes' = Append(tm_deletes,
                                [taskId |-> tm_tasks.items[i].id, tasks |-> tm_tasks.items])
       ELSE UNCHANGED tm_deletes
    /\ lastOp' = [name |-> "deleteTask", alert |-> Null]
    /\ UNCHANGED << mounted, tm_taskTitle, tm_instructionSteps, tm_tasks, tm_isSubmittingTask,
                    tm_isSavingTask, tm_fetchPending, tm_savePhase, tm_submitPending >>

RemoveAt(seq, k) == SubSeq(seq, 1, k - 1) \o SubSeq(seq, k + 1, Len(seq))

\* deleteTask after its DELETE settles
TM_deleteResponse(k, outcome) ==
    /\ mounted = "TM"
    /\ k \in 1..Len(tm_deletes)
    /\ IF outcome = "ok"
       THEN /\ tm_tasks' = TaskArray(FilterOutId(tm_deletes[k].tasks, tm_deletes[k].taskId))
            /\ lastOp' = [name |-> "deleteResponse", outcome |-> outcome,
                          taskId |-> tm_deletes[k].taskId, alert |-> Null]
       ELSE /\ UNCHANGED tm_tasks
            /\ lastOp' = [name |-> "deleteResponse", outcome |-> outcome,
                          taskId |-> tm_deletes[k].taskId,
                          alert |-> "Failed to delete task. Please try again."]
    /\ tm_deletes' = RemoveAt(tm_deletes, k)
    /\ UNCHANGED << mounted, tm_taskTitle, tm_instructionSteps, tm_isSubmittingTask,
                    tm_isSavingTask, tm_fetchPending, tm_savePhase, tm_submitPending >>

\* submitTaskInstructions up to its await; the button is disabled while isSubmittingTask
TM_submitTaskInstructions ==
    /\ mounted = "TM"
    /\ ~tm_isSubmittingTask
    /\ IF IsBlank(tm_taskTitle)
       THEN /\ lastOp' = [name |-> "submitTaskInstructions", alert |-> "Please provide a task title"]
            /\ UNCHANGED << tm_isSubmittingTask, tm_submitPending >>
       ELSE IF SomeStepBlank(tm_instructionSteps)
       THEN /\ lastOp' = [name |-> "submitTaskInstructions",
                          alert |-> "All instruction steps must have text"]
            /\ UNCHANGED << tm_isSubmittingTask, tm_submitPending >>
       ELSE /\ TM_Inflight < MaxInflight
            /\ tm_isSubmittingTask' = TRUE
            /\ tm_submitPending' = TRUE
            /\ lastOp' = [name |-> "submitTaskInstructions", alert |-> Null]
    /\ UNCHANGED << mounted, tm_taskTitle, tm_instructionSteps, tm_tasks, tm_isSavingTask,
                    tm_fetchPending, tm_savePhase, tm_deletes >>

\* submitTaskInstructions after the POST /instruction/setup/ settles
TM_submitResponse(outcome) ==
    /\ mounted = "TM"
    /\ tm_submitPending
    /\ tm_isSubmittingTask' = FALSE
    /\ tm_submitPending' = FALSE
    /\ lastOp' = [name |-> "submitResponse", outcome |-> outcome,
                  alert |-> IF outcome = "ok" THEN "Task instructions submitted successfully!"
                            ELSE "Failed to submit task instructions. Please try again."]
    /\ UNCHANGED << mounted, tm_taskTitle, tm_instructionSteps, tm_tasks, tm_isSavingTask,
                    tm_fetchPending, tm_savePhase, tm_deletes >>

\* ------------------------------------------------------------------ IT: initial state
\* a size limit counted in decimal megabytes
MaxImageBytes_Decimal == 5 * 1000 * 1000

\* file.size > 5 * 1024 * 1024
MaxImageBytes == 5 * 1024 * 1024

\* files the user may pick: [size, image], image the data URL FileReader produces
Files == { [size |-> MaxImageBytes, image |-> "imgA"],
           [size |-> MaxImageBytes + 1, image |-> "imgB"] }

\* JSON bodies of a 2xx reply of /instruction/setup/ ({message?}) and of
\* /instruction/instruction/ ({result?, image_url?})
SetupReplies == { [message |-> Null], [message |-> "msg"] }
TrackReplies == { [result |-> Null, image_url |-> Null], [result |-> "res", image_url |-> "url"] }

\* useState initial values (instruction-tab.tsx lines 31-45), nothing in flight
IT_Initial ==
    /\ it_taskTitle = <<>>
    /\ it_instructionSteps = InitialSteps
    /\ it_isTaskSubmitted = FALSE
    /\ it_isSubmittingTask = FALSE
    /\ it_isWebcamActive = FALSE
    /\ it_isCapturing = FALSE
    /\ it_responses = <<>>
    /\ it_error = Null
    /\ it_success = Null
    /\ it_srcObject = Null
    /\ it_orphans = 0
    /\ it_pendingStarts = 0
    /\ it_submitPhase = "idle"
    /\ it_resets = <<>>
    /\ it_reads = <<>>
    /\ it_capturePhase = "idle"
    /\ it_clock = 0

\* requests and reads of IT in flight
IT_Inflight ==
    (IF it_submitPhase # "idle" THEN 1 ELSE 0) + Len(it_resets) + Len(it_reads)
    + (IF it_capturePhase \in { "encoding", "fetching" } THEN 1 ELSE 0) + it_pendingStarts

\* the <video> element is rendered only inside {isTaskSubmitted && ...} (lines 447-486)
IT_videoRendered == mounted = "IT" /\ it_isTaskSubmitted

\* ------------------------------------------------------------------ IT: task setup
\* onChange of the title input; Task Setup is rendered only while !isTaskSubmitted
IT_setTaskTitle(text) ==
    /\ mounted = "IT"
    /\ ~it_isTaskSubmitted
    /\ it_taskTitle' = text
    /\ lastOp' = [name |-> "setTaskTitle"]
    /\ UNCHANGED << mounted, it_instructionSteps, it_isTaskSubmitted, it_isSubmittingTask,
                    it_isWebcamActive, it_isCapturing, it_responses, it_error, it_success,
                    it_srcObject, it_orphans, it_pendingStarts, it_submitPhase, it_resets,
                    it_reads, it_capturePhase, it_clock >>

\* addInstructionStep
IT_addInstructionStep ==
    /\ mounted = "IT"
    /\ ~it_isTaskSubmitted
    /\ Len(it_instructionSteps) < MaxSteps
    /\ it_instructionSteps' = AppendStep(it_instructionSteps)
    /\ lastOp' = [name |-> "addInstructionStep"]
    /\ UNCHANGED << mounted, it_taskTitle, it_isTaskSubmitted, it_isSubmittingTask,
                    it_isWebcamActive, it_isCapturing, it_responses, it_error, it_success,
                    it_srcObject, it_orphans, it_pendingStarts, it_submitPhase, it_resets,
                    it_reads, it_capturePhase, it_clock >>

\* removeInstructionStep(step.id), clicked on the step rendered at index i
IT_removeInstructionStep(i) ==
    /\ mounted = "IT"
    /\ ~it_isTaskSubmitted
    /\ i \in 1..Len(it_instructionSteps)
    /\ IF Len(it_instructionSteps) <= 1
       THEN /\ it_error' = "You must have at least one instruction step"
            /\ UNCHANGED it_instructionSteps
       ELSE /\ it_instructionSteps' = FilterOutId(it_instructionSteps, it_instructionSteps[i].id)
            /\ UNCHANGED it_error
    /\ lastOp' = [name |-> "removeInstructionStep"]
    /\ UNCHANGED << mounted, it_taskTitle, it_isTaskSubmitted, it_isSubmittingTask,
                    it_isWebcamActive, it_isCapturing, it_responses, it_success,
                    it_srcObject, it_orphans, it_pendingStarts, it_submitPhase, it_resets,
                    it_reads, it_capturePhase, it_clock >>

\* updateStepText(step.id, text), typed into the step rendered at index i
IT_updateStepText(i, text) ==
    /\ mounted = "IT"
    /\ ~it_isTaskSubmitted
    /\ i \in 1..Len(it_instructionSteps)
    /\ it_instructionSteps' = WithStepText(it_instructionSteps, it_instructionSteps[i].id, text)
    /\ lastOp' = [name |-> "updateStepText"]
    /\ UNCHANGED << mounted, it_taskTitle, it_isTaskSubmitted, it_isSubmittingTask,
                    it_isWebcamActive, it_isCapturing, it_responses, it_error, it_success,
                    it_srcObject, it_orphans, it_pendingStarts, it_submitPhase, it_resets,
                    it_reads, it_capturePhase, it_clock >>

\* handleImageUpload(step.id, event) for the file picked in the input of the step at
\* index i (rendered only while the step has no image), up to reader.readAsDataURL
IT_handleImageUpload(i, file) ==
    /\ mounted = "IT"
    /\ ~it_isTaskSubmitted
    /\ i \in 1..Len(it_instructionSteps)
    /\ it_instructionSteps[i].image = NoImage
    /\ IF file.size > MaxImageBytes
       THEN /\ it_error' = "Image size must be less than 5MB"
            /\ UNCHANGED it_reads
       ELSE /\ IT_Inflight < MaxInflight
            /\ Len(it_reads) < MaxReads
            /\ it_reads' = Append(it_reads, [id |-> it_instructionSteps[i].id,
                                             steps |-> it_instructionSteps,
                                             image |-> file.image])
            /\ UNCHANGED it_error
    /\ lastOp' = [name |-> "handleImageUpload", size |-> file.size]
    /\ UNCHANGED << mounted, it_taskTitle, it_instructionSteps, it_isTaskSubmitted,
                    it_isSubmittingTask, it_isWebcamActive, it_isCapturing, it_responses,
                    it_success, it_srcObject, it_orphans, it_pendingStarts, it_submitPhase,
                    it_resets, it_capturePhase, it_clock >>

\* reader.onload of the read at position k: maps the captured steps array
IT_readerOnload(k) ==
    /\ mounted = "IT"
    /\ k \in 1..Len(it_reads)
    /\ it_instructionSteps' = WithStepImage(it_reads[k].steps, it_reads[k].id, it_reads[k].image)
    /\ it_reads' = RemoveAt(it_reads, k)
    /\ lastOp' = [name |-> "readerOnload", id |-> it_reads[k].id]
    /\ UNCHANGED << mounted, it_taskTitle, it_isTaskSubmitted, it_isSubmittingTask,
                    it_isWebcamActive, it_isCapturing, it_responses, it_error, it_success,
                    it_srcObject, it_orphans, it_pendingStarts, it_submitPhase, it_resets,
                    it_capturePhase, it_clock >>

\* removeStepImage(step.id), clicked on the image of the step at index i
IT_removeStepImage(i) ==
    /\ mounted = "IT"
    /\ ~it_isTaskSubmitted
    /\ i \in 1..Len(it_instructionSteps)
    /\ it_instructionSteps[i].image # NoImage
    /\ it_instructionSteps' = WithStepImage(it_instructionSteps, it_instructionSteps[i].id, NoImage)
    /\ lastOp' = [name |-> "removeStepImage"]
    /\ UNCHANGED << mounted, it_taskTitle, it_isTaskSubmitted, it_isSubmittingTask,
                    it_isWebcamActive, it_isCapturing, it_responses, it_error, it_success,
                    it_srcObject, it_orphans, it_pendingStarts, it_submitPhase, it_resets,
                    it_reads, it_capturePhase, it_clock >>

SomeStepHasImage(steps) == \E i \in 1..Len(steps) : steps[i].image # NoImage

\* submitTaskInstructions up to its first await; the button is disabled while isSubmittingTask
IT_submitTaskInstructions ==
    /\ mounted = "IT"
    /\ ~it_isTaskSubmitted
    /\ ~it_isSubmittingTask
    /\ IF IsBlank(it_taskTitle)
       THEN /\ it_error' = "Please provide a task title"
            /\ UNCHANGED << it_isSubmittingTask, it_success, it_submitPhase >>
       ELSE IF SomeStepBlank(it_instructionSteps)
       THEN /\ it_error' = "All instruction steps must have text"
            /\ UNCHANGED << it_isSubmittingTask, it_success, it_submitPhase >>
       ELSE /\ IT_Inflight < MaxInflight
            /\ it_isSubmittingTask' = TRUE
            /\ it_error' = Null
            /\ it_success' = Null
            /\ it_submitPhase' = IF SomeStepHasImage(it_instructionSteps) THEN "images" ELSE "post"
    /\ lastOp' = [name |-> "submitTaskInstructions"]
    /\ UNCHANGED << mounted, it_taskTitle, it_instructionSteps, it_isTaskSubmitted,
                    it_isWebcamActive, it_isCapturing, it_responses, it_srcObject, it_orphans,
                    it_pendingStarts, it_resets, it_reads, it_capturePhase, it_clock >>

\* submitTaskInstructions, catch and finally (lines 188-193)
IT_submitFailed ==
    /\ it_error' = "Failed to submit task instructions. Please try again."
    /\ it_isSubmittingTask' = FALSE
    /\ it_submitPhase' = "idle"
    /\ UNCHANGED << it_isTaskSubmitted, it_success, it_responses, it_clock, it_srcObject >>

\* submitTaskInstructions after the step images were turned into blobs (lines 154-159)
IT_submitImagesDone(outcome) ==
    /\ mounted = "IT"
    /\ it_submitPhase = "images"
    /\ IF outcome = "ok"
       THEN /\ it_submitPhase' = "post"
            /\ UNCHANGED << it_isTaskSubmitted, it_isSubmittingTask, it_error, it_success,
                            it_responses, it_clock, it_srcObject >>
       ELSE IT_submitFailed
    /\ lastOp' = [name |-> "submitImagesDone", outcome |-> outcome]
    /\ UNCHANGED << mounted, it_taskTitle, it_instructionSteps, it_isWebcamActive,
                    it_isCapturing, it_orphans, it_pendingStarts, it_resets, it_reads,
                    it_capturePhase >>

\* submitTaskInstructions after the POST /instruction/setup/ settles (lines 168-193)
IT_submitResponse(outcome, data) ==
    /\ mounted = "IT"
    /\ it_submitPhase = "post"
    /\ IF outcome = "ok"
       THEN /\ it_isTaskSubmitted' = TRUE
            /\ it_success' = "Task instructions submitted successfully! You can now use the webcam."
            /\ IF data.message # Null
               THEN /\ it_clock < MaxResponses
                    /\ it_responses' = << [id |-> it_clock + 1, text |-> data.message,
                                           image |-> NoImage] >>
                    /\ it_clock' = it_clock + 1
               ELSE UNCHANGED << it_responses, it_clock >>
            /\ it_isSubmittingTask' = FALSE
            /\ it_submitPhase' = "idle"
            /\ UNCHANGED << it_error, it_srcObject >>
       ELSE IT_submitFailed
    /\ lastOp' = [name |-> "submitResponse", outcome |-> outcome]
    /\ UNCHANGED << mounted, it_taskTitle, it_instructionSteps, it_isWebcamActive,
                    it_isCapturing, it_orphans, it_pendingStarts, it_resets, it_reads,
                    it_capturePhase >>

\* ------------------------------------------------------------------ IT: reset
\* resetEverything up to its await; the closure captures isWebcamActive
IT_resetEverything ==
    /\ mounted = "IT"
    /\ IT_Inflight < MaxInflight
    /\ it_resets' = Append(it_resets, [isWebcamActive |-> it_isWebcamActive])
    /\ lastOp' = [name |-> "resetEverything"]
    /\ UNCHANGED << mounted, it_taskTitle, it_instructionSteps, it_isTaskSubmitted,
                    it_isSubmittingTask, it_isWebcamActive, it_isCapturing, it_responses,
                    it_error, it_success, it_srcObject, it_orphans, it_pendingStarts,
                    it_submitPhase, it_reads, it_capturePhase, it_clock >>

\* resetEverything after the POST /reset/ settles. The state updates are batched; then
\* stopWebcam runs if the captured isWebcamActive is true and acts if the video element
\* holds a stream; the re-render that follows removes the video element.
IT_resetResponse(k, outcome) ==
    /\ mounted = "IT"
    /\ k \in 1..Len(it_resets)
    /\ IF outcome = "ok"
       THEN LET stopped == it_resets[k].isWebcamActive /\ IT_videoRendered
                           /\ it_srcObject # Null
            IN  /\ it_taskTitle' = <<>>
                /\ it_instructionSteps' = InitialSteps
                /\ it_isTaskSubmitted' = FALSE
                /\ it_responses' = <<>>
                /\ it_error' = Null
                /\ it_success' = "Task reset successfully"
                /\ it_isWebcamActive' = IF stopped THEN FALSE ELSE it_isWebcamActive
                /\ it_srcObject' = Null
                /\ it_orphans' = IF ~stopped /\ it_srcObject # Null
                                 THEN it_orphans + 1 ELSE it_orphans
       ELSE /\ it_error' = "Failed to reset task. Please try again."
            /\ UNCHANGED << it_taskTitle, it_instructionSteps, it_isTaskSubmitted,
                            it_responses, it_success, it_isWebcamActive, it_srcObject,
                            it_orphans >>
    /\ it_resets' = RemoveAt(it_resets, k)
    /\ lastOp' = [name |-> "resetResponse", outcome |-> outcome]
    /\ UNCHANGED << mounted, it_isSubmittingTask, it_isCapturing, it_pendingStarts,
                    it_submitPhase, it_reads, it_capturePhase, it_clock >>

\* ------------------------------------------------------------------ IT: webcam
IT_liveStreams == it_orphans + (IF it_srcObject # Null THEN 1 ELSE 0)

\* startWebcam up to its await; the button is rendered while isTaskSubmitted && !isWebcamActive
IT_startWebcam ==
    /\ mounted = "IT"
    /\ it_isTaskSubmitted
    /\ ~it_isWebcamActive
    /\ IT_Inflight < MaxInflight
    /\ IT_liveStreams + it_pendingStarts < MaxStreams
    /\ it_pendingStarts' = it_pendingStarts + 1
    /\ lastOp' = [name |-> "startWebcam"]
    /\ UNCHANGED << mounted, it_taskTitle, it_instructionSteps, it_isTaskSubmitted,
                    it_isSubmittingTask, it_isWebcamActive, it_isCapturing, it_responses,
                    it_error, it_success, it_srcObject, it_orphans, it_submitPhase,
                    it_resets, it_reads, it_capturePhase, it_clock >>

\* startWebcam after getUserMedia settles; it may settle after the component is gone
IT_startWebcamSettled(outcome) ==
    /\ mounted \in { "IT", "none" }
    /\ it_pendingStarts > 0
    /\ it_pendingStarts' = it_pendingStarts - 1
    /\ IF outcome = "ok"
       THEN IF IT_videoRendered
            THEN /\ it_orphans' = IF it_srcObject # Null THEN it_orphans + 1 ELSE it_orphans
                 /\ it_srcObject' = "stream"
                 /\ it_isWebcamActive' = TRUE
                 /\ it_error' = Null
            ELSE /\ it_orphans' = it_orphans + 1
                 /\ UNCHANGED << it_srcObject, it_isWebcamActive, it_error >>
       ELSE /\ it_error' = IF mounted = "IT"
                           THEN "Could not access webcam. Please check permissions."
                           ELSE it_error
            /\ UNCHANGED << it_srcObject, it_isWebcamActive, it_orphans >>
    /\ lastOp' = [name |-> "startWebcamSettled", outcome |-> outcome]
    /\ UNCHANGED << mounted, it_taskTitle, it_instructionSteps, it_isTaskSubmitted,
                    it_isSubmittingTask, it_isCapturing, it_responses, it_success,
                    it_submitPhase, it_resets, it_reads, it_capturePhase, it_clock >>

\* a stopWebcam that clears the active flag whether or not a stream is bound
IT_stopWebcam_AlwaysClears ==
    /\ mounted = "IT"
    /\ it_isTaskSubmitted
    /\ it_isWebcamActive
    /\ it_srcObject' = Null
    /\ it_isWebcamActive' = FALSE
    /\ lastOp' = [name |-> "stopWebcam"]
    /\ UNCHANGED << mounted, it_taskTitle, it_instructionSteps, it_isTaskSubmitted,
                    it_isSubmittingTask, it_isCapturing, it_responses, it_error, it_success,
                    it_orphans, it_pendingStarts, it_submitPhase, it_resets, it_reads,
                    it_capturePhase, it_clock >>

\* stopWebcam; the button is rendered while isTaskSubmitted && isWebcamActive
IT_stopWebcam ==
    /\ mounted = "IT"
    /\ it_isTaskSubmitted
    /\ it_isWebcamActive
    /\ IF it_srcObject # Null
       THEN /\ it_srcObject' = Null
            /\ it_isWebcamActive' = FALSE
       ELSE UNCHANGED << it_srcObject, it_isWebcamActive >>
    /\ lastOp' = [name |-> "stopWebcam"]
    /\ UNCHANGED << mounted, it_taskTitle, it_instructionSteps, it_isTaskSubmitted,
                    it_isSubmittingTask, it_isCapturing, it_responses, it_error, it_success,
                    it_orphans, it_pendingStarts, it_submitPhase, it_resets, it_reads,
                    it_capturePhase, it_clock >>

\* a Capture & Send button that stays enabled while isCapturing
IT_captureAndSendImage_Reentrant(contextOk, hasFrame) ==
    /\ mounted = "IT"
    /\ it_isTaskSubmitted
    /\ it_isWebcamActive
    /\ hasFrame => it_srcObject # Null
    /\ IF ~contextOk
       THEN /\ it_error' = "Could not access canvas context."
            /\ UNCHANGED << it_isCapturing, it_capturePhase >>
       ELSE /\ IT_Inflight < MaxInflight
            /\ it_clock < MaxResponses
            /\ it_isCapturing' = TRUE
            /\ it_error' = Null
            /\ it_capturePhase' = IF hasFrame THEN "encoding" ELSE "no_blob"
    /\ lastOp' = [name |-> "captureAndSendImage"]
    /\ UNCHANGED << mounted, it_taskTitle, it_instructionSteps, it_isTaskSubmitted,
                    it_isSubmittingTask, it_isWebcamActive, it_responses, it_success,
                    it_srcObject, it_orphans, it_pendingStarts, it_submitPhase, it_resets,
                    it_reads, it_clock >>

\* captureAndSendImage up to its await of toBlob; the button is rendered while
\* isWebcamActive and disabled while isCapturing. contextOk: getContext("2d") is not null;
\* hasFrame: the video has non-zero dimensions, so toBlob will give a blob
IT_captureAndSendImage(contextOk, hasFrame) ==
    /\ mounted = "IT"
    /\ it_isTaskSubmitted
    /\ it_isWebcamActive
    /\ ~it_isCapturing
    /\ hasFrame => it_srcObject # Null
    /\ IF ~contextOk
       THEN /\ it_error' = "Could not access canvas context."
            /\ UNCHANGED << it_isCapturing, it_capturePhase >>
       ELSE /\ IT_Inflight < MaxInflight
            /\ it_clock < MaxResponses
            /\ it_isCapturing' = TRUE
            /\ it_error' = Null
            /\ it_capturePhase' = IF hasFrame THEN "encoding" ELSE "no_blob"
    /\ lastOp' = [name |-> "captureAndSendImage"]
    /\ UNCHANGED << mounted, it_taskTitle, it_instructionSteps, it_isTaskSubmitted,
                    it_isSubmittingTask, it_isWebcamActive, it_responses, it_success,
                    it_srcObject, it_orphans, it_pendingStarts, it_submitPhase, it_resets,
                    it_reads, it_clock >>

\* captureAndSendImage after toBlob gave its blob: the POST is sent
IT_captureEncoded ==
    /\ mounted = "IT"
    /\ it_capturePhase = "encoding"
    /\ it_capturePhase' = "fetching"
    /\ lastOp' = [name |-> "captureEncoded"]
    /\ UNCHANGED << mounted, it_taskTitle, it_instructionSteps, it_isTaskSubmitted,
                    it_isSubmittingTask, it_isWebcamActive, it_isCapturing, it_responses,
                    it_error, it_success, it_srcObject, it_orphans, it_pendingStarts,
                    it_submitPhase, it_resets, it_reads, it_clock >>

\* captureAndSendImage after the POST /instruction/instruction/ settles (lines 278-306)
IT_captureResponse(outcome, data) ==
    /\ mounted = "IT"
    /\ it_capturePhase = "fetching"
    /\ IF outcome = "ok"
       THEN /\ it_responses' = << [id |-> it_clock + 1,
                                   text |-> IF data.result # Null THEN data.result ELSE NoImage,
                                   image |-> IF data.image_url # Null THEN data.image_url
                                             ELSE NoImage] >> \o it_responses
            /\ it_clock' = it_clock + 1
            /\ UNCHANGED it_error
       ELSE /\ it_error' = "Failed to send image. Please try again."
            /\ UNCHANGED << it_responses, it_clock >>
    /\ it_isCapturing' = FALSE
    /\ it_capturePhase' = "idle"
    /\ lastOp' = [name |-> "captureResponse", outcome |-> outcome]
    /\ UNCHANGED << mounted, it_taskTitle, it_instructionSteps, it_isTaskSubmitted,
                    it_isSubmittingTask, it_isWebcamActive, it_success, it_srcObject,
                    it_orphans, it_pendingStarts, it_submitPhase, it_resets, it_reads >>

\* the page switches to the other tab: the component is unmounted. It registers no
\* cleanup, so a stream its video element holds stays live.
IT_unmount ==
    /\ mounted = "IT"
    /\ mounted' = "none"
    /\ it_orphans' = IT_liveStreams
    /\ it_srcObject' = Null
    /\ lastOp' = [name |-> "unmount"]
    /\ UNCHANGED << it_taskTitle, it_instructionSteps, it_isTaskSubmitted,
                    it_isSubmittingTask, it_isWebcamActive, it_isCapturing, it_responses,
                    it_error, it_success, it_pendingStarts, it_submitPhase, it_resets,
                    it_reads, it_capturePhase, it_clock >>

\* ------------------------------------------------------------------ OD: initial state
\* values typed into the capture-interval input (Number(e.target.value))
IntervalInputs == { 0, 500 }

\* JSON bodies of a 2xx reply of /yolo/detect/
DetectReplies ==
    { [bounding_boxes |-> <<>>, confidences |-> None, classes |-> None,
       performance_metrics |-> None, summary |-> Null],
      [bounding_boxes |-> << <<10, 10, 50, 50>>, <<30, 40, 80, 90>> >>,
       confidences |-> Some(<<87>>), classes |-> Some(<<"cup", "">>),
       performance_metrics |-> Some([preprocess |-> "1ms", inference |-> "2ms",
                                     postprocess |-> "3ms", image_shape |-> "(1, 3, 480, 640)",
                                     summary |-> Null]),
       summary |-> Null],
      [bounding_boxes |-> << <<5, 20, 40, 60>> >>, confidences |-> None, classes |-> None,
       performance_metrics |-> None, summary |-> Null] }

\* useState and useRef initial values (part_000 lines 263-274)
OD_Initial ==
    /\ od_returnedImage = None
    /\ od_error = Null
    /\ od_detectedObjects = <<>>
    /\ od_captureInterval = 2000
    /\ od_performanceMetrics = None
    /\ od_lastProcessedTime = None
    /\ od_isStreaming = FALSE
    /\ od_srcObject = Null
    /\ od_orphans = 0
    /\ od_starts = <<>>
    /\ od_intervalRef = None
    /\ od_timers = 0
    /\ od_canvas = 0
    /\ od_frameClock = 0
    /\ od_cycles = <<>>

OD_Inflight == Len(od_starts) + Len(od_cycles)

OD_liveStreams == od_orphans + (IF od_srcObject # Null THEN 1 ELSE 0)

\* ------------------------------------------------------------------ OD: pure helpers
\* a value that || and ! treat as false: undefined, null, the empty string
FalsyText(value) == value = Null \/ value = ""

\* value || default
Or(value, default) == IF FalsyText(value) THEN default ELSE value

\* summary texts of the detection service: one that carries the three timings, one that
\* does not
TimedSummary == "12ms preprocess, 34ms inference, 56ms postprocess, shape (1, 3, 480, 640)"
PlainSummary == "1 cup"

\* summary.match(/(\d+\.?\d*)ms preprocess, (\d+\.?\d*)ms inference, (\d+\.?\d*)ms postprocess/):
\* the three groups, or None when there is no match
SpeedMatch(summary) ==
    IF summary = TimedSummary THEN Some(<< "12", "34", "56" >>) ELSE None

\* summary.match(/shape $$([^)]+)$$/): the pattern asks for characters after the end of
\* the input, so it matches no string
ShapeMatch(summary) == None

\* data.performance_metrics || {}
NoMetrics ==
    [preprocess |-> Null, inference |-> Null, postprocess |-> Null, image_shape |-> Null,
     summary |-> Null]

\* parsePerformanceMetrics (lines 316-365), without the timestamp
parsePerformanceMetrics(data) ==
    IF data.performance_metrics = None /\ FalsyText(data.summary) THEN None
    ELSE LET metrics == IF data.performance_metrics = None THEN NoMetrics
                        ELSE data.performance_metrics[1]
             summary == Or(metrics.summary, Or(data.summary, ""))
             preprocess == Or(metrics.preprocess, "0ms")
             inference == Or(metrics.inference, "0ms")
             postprocess == Or(metrics.postprocess, "0ms")
             imageShape == Or(metrics.image_shape, "")
             parse == /\ ~FalsyText(summary)
                      /\ \/ FalsyText(preprocess) \/ FalsyText(inference)
                         \/ FalsyText(postprocess) \/ FalsyText(imageShape)
             speedMatch == IF parse THEN SpeedMatch(summary) ELSE None
             shapeMatch == IF parse THEN ShapeMatch(summary) ELSE None
         IN  Some([summary |-> summary,
                   preprocess |-> IF speedMatch = None THEN preprocess
                                  ELSE Or(preprocess, speedMatch[1][1] \o "ms"),
                   inference |-> IF speedMatch = None THEN inference
                                 ELSE Or(inference, speedMatch[1][2] \o "ms"),
                   postprocess |-> IF speedMatch = None THEN postprocess
                                   ELSE Or(postprocess, speedMatch[1][3] \o "ms"),
                   imageShape |-> IF shapeMatch = None THEN imageShape
                                  ELSE Or(imageShape, shapeMatch[1][1])])

\* array[index] of an array of numbers, || 0: an index past the end reads undefined
NumberAt(array, index) == IF index \in 1..Len(array) THEN array[index] ELSE 0

\* array[index] of an array of strings, || "Unknown"
ClassAt(array, index) ==
    IF index \in 1..Len(array) THEN Or(array[index], "Unknown") ELSE "Unknown"

\* the objects with 0-based ids
DetectedObjectsOf_ZeroBased(data) ==
    LET boundingBoxes == data.bounding_boxes
        confidences == IF data.confidences = None
                       THEN [i \in 1..Len(boundingBoxes) |-> 0] ELSE data.confidences[1]
        classes == IF data.classes = None
                   THEN [i \in 1..Len(boundingBoxes) |-> "Unknown"] ELSE data.classes[1]
    IN  [index \in 1..Len(boundingBoxes) |->
            [id |-> index - 1,
             box |-> boundingBoxes[index],
             confidence |-> NumberAt(confidences, index),
             class |-> ClassAt(classes, index)]]

\* lines 416-432: boundingBoxes.map((box, index) => ({ id: index + 1, box, confidence,
\* class })); sequences are 1-based, so the id is the position. Confidences are in percent.
DetectedObjectsOf(data) ==
    LET boundingBoxes == data.bounding_boxes
        confidences == IF data.confidences = None
                       THEN [i \in 1..Len(boundingBoxes) |-> 0] ELSE data.confidences[1]
        classes == IF data.classes = None
                   THEN [i \in 1..Len(boundingBoxes) |-> "Unknown"] ELSE data.classes[1]
    IN  [index \in 1..Len(boundingBoxes) |->
            [id |-> index,
             box |-> boundingBoxes[index],
             confidence |-> NumberAt(confidences, index),
             class |-> ClassAt(classes, index)]]

\* the label that is moved inside the box already at y1 = 20
LabelOf_AtThreshold(obj) ==
    [words |-> IF obj.class # "Unknown" THEN << obj.class >>
               ELSE << "Object", ToString(obj.id) >>,
     percent |-> obj.confidence,
     x |-> obj.box[1],
     y |-> IF obj.box[2] >= 20 THEN obj.box[2] - 5 ELSE obj.box[2] + 20]

\* lines 458-466: the label of one object, its words before the percentage, and where
\* fillText puts it
LabelOf(obj) ==
    [words |-> IF obj.class # "Unknown" THEN << obj.class >>
               ELSE << "Object", ToString(obj.id) >>,
     percent |-> obj.confidence,
     x |-> obj.box[1],
     y |-> IF obj.box[2] > 20 THEN obj.box[2] - 5 ELSE obj.box[2] + 20]

\* objects.forEach((obj) => ... fillText(label, ...)) (lines 451-467)
LabelsOf(objects) == [i \in 1..Len(objects) |-> LabelOf(objects[i])]

\* ------------------------------------------------------------------ OD: actions
\* onChange of the capture-interval input, disabled while isStreaming
OD_setCaptureInterval(value) ==
    /\ mounted = "OD"
    /\ ~od_isStreaming
    /\ od_captureInterval' = value
    /\ lastOp' = [name |-> "setCaptureInterval"]
    /\ UNCHANGED << mounted, od_returnedImage, od_error, od_detectedObjects,
                    od_performanceMetrics, od_lastProcessedTime, od_isStreaming, od_srcObject,
                    od_orphans, od_starts, od_intervalRef, od_timers, od_canvas,
                    od_frameClock, od_cycles >>

\* startWebcam up to its await; the button is rendered while !isStreaming
OD_startWebcam ==
    /\ mounted = "OD"
    /\ ~od_isStreaming
    /\ OD_Inflight < MaxInflight
    /\ OD_liveStreams + Len(od_starts) < MaxStreams
    /\ od_starts' = Append(od_starts, [captureInterval |-> od_captureInterval])
    /\ lastOp' = [name |-> "startWebcam"]
    /\ UNCHANGED << mounted, od_returnedImage, od_error, od_detectedObjects, od_captureInterval,
                    od_performanceMetrics, od_lastProcessedTime, od_isStreaming, od_srcObject,
                    od_orphans, od_intervalRef, od_timers, od_canvas, od_frameClock,
                    od_cycles >>

\* a startFrameCapture that sets its interval without clearing the one intervalRef holds
OD_startWebcamSettled_KeepsTimer(k, outcome) ==
    /\ mounted \in { "OD", "none" }
    /\ k \in 1..Len(od_starts)
    /\ od_starts' = RemoveAt(od_starts, k)
    /\ IF outcome = "ok"
       THEN IF mounted = "OD"
            THEN /\ od_orphans' = IF od_srcObject # Null THEN od_orphans + 1 ELSE od_orphans
                 /\ od_srcObject' = "stream"
                 /\ od_isStreaming' = TRUE
                 /\ od_error' = Null
                 /\ od_timers' = od_timers + 1
                 /\ od_intervalRef' = Some(od_starts[k].captureInterval)
            ELSE /\ od_orphans' = od_orphans + 1
                 /\ UNCHANGED << od_srcObject, od_isStreaming, od_error, od_timers,
                                 od_intervalRef >>
       ELSE /\ od_error' = IF mounted = "OD"
                           THEN "Could not access webcam. Please check permissions."
                           ELSE od_error
            /\ UNCHANGED << od_orphans, od_srcObject, od_isStreaming, od_timers,
                            od_intervalRef >>
    /\ lastOp' = [name |-> "startWebcamSettled", outcome |-> outcome]
    /\ UNCHANGED << mounted, od_returnedImage, od_detectedObjects, od_captureInterval,
                    od_performanceMetrics, od_lastProcessedTime, od_canvas, od_frameClock,
                    od_cycles >>

\* startWebcam after getUserMedia settles: binds the stream and calls startFrameCapture,
\* which clears the interval intervalRef holds and sets a new one
OD_startWebcamSettled(k, outcome) ==
    /\ mounted \in { "OD", "none" }
    /\ k \in 1..Len(od_starts)
    /\ od_starts' = RemoveAt(od_starts, k)
    /\ IF outcome = "ok"
       THEN IF mounted = "OD"
            THEN /\ od_orphans' = IF od_srcObject # Null THEN od_orphans + 1 ELSE od_orphans
                 /\ od_srcObject' = "stream"
                 /\ od_isStreaming' = TRUE
                 /\ od_error' = Null
                 /\ od_timers' = IF od_intervalRef # None THEN od_timers ELSE od_timers + 1
                 /\ od_intervalRef' = Some(od_starts[k].captureInterval)
            ELSE /\ od_orphans' = od_orphans + 1
                 /\ UNCHANGED << od_srcObject, od_isStreaming, od_error, od_timers,
                                 od_intervalRef >>
       ELSE /\ od_error' = IF mounted = "OD"
                           THEN "Could not access webcam. Please check permissions."
                           ELSE od_error
            /\ UNCHANGED << od_orphans, od_srcObject, od_isStreaming, od_timers,
                            od_intervalRef >>
    /\ lastOp' = [name |-> "startWebcamSettled", outcome |-> outcome]
    /\ UNCHANGED << mounted, od_returnedImage, od_detectedObjects, od_captureInterval,
                    od_performanceMetrics, od_lastProcessedTime, od_canvas, od_frameClock,
                    od_cycles >>

\* a stopWebcam that also aborts the detection requests in flight
OD_stopWebcam_Aborts ==
    /\ mounted = "OD"
    /\ od_isStreaming
    /\ IF od_srcObject # Null
       THEN /\ od_srcObject' = Null
            /\ od_isStreaming' = FALSE
            /\ od_timers' = IF od_intervalRef # None THEN od_timers - 1 ELSE od_timers
            /\ od_intervalRef' = None
            /\ od_cycles' = SelectSeq(od_cycles, LAMBDA c : c.phase # "fetching")
       ELSE UNCHANGED << od_srcObject, od_isStreaming, od_timers, od_intervalRef, od_cycles >>
    /\ lastOp' = [name |-> "stopWebcam"]
    /\ UNCHANGED << mounted, od_returnedImage, od_error, od_detectedObjects, od_captureInterval,
                    od_performanceMetrics, od_lastProcessedTime, od_orphans, od_starts,
                    od_canvas, od_frameClock >>

\* stopWebcam; the button is rendered while isStreaming
OD_stopWebcam ==
    /\ mounted = "OD"
    /\ od_isStreaming
    /\ IF od_srcObject # Null
       THEN /\ od_srcObject' = Null
            /\ od_isStreaming' = FALSE
            /\ od_timers' = IF od_intervalRef # None THEN od_timers - 1 ELSE od_timers
            /\ od_intervalRef' = None
       ELSE UNCHANGED << od_srcObject, od_isStreaming, od_timers, od_intervalRef >>
    /\ lastOp' = [name |-> "stopWebcam"]
    /\ UNCHANGED << mounted, od_returnedImage, od_error, od_detectedObjects, od_captureInterval,
                    od_performanceMetrics, od_lastProcessedTime, od_orphans, od_starts,
                    od_canvas, od_frameClock, od_cycles >>

\* a tick of the interval: captureAndSendFrame up to its await of toBlob. hasFrame: the
\* video has non-zero dimensions; without a frame toBlob gives null and the promise
\* never settles
OD_captureTick(hasFrame) ==
    /\ mounted = "OD"
    /\ od_timers > 0
    /\ od_frameClock < MaxFrames
    /\ hasFrame => od_srcObject # Null
    /\ IF hasFrame
       THEN /\ OD_Inflight < MaxInflight
            /\ od_canvas' = od_frameClock + 1
            /\ od_cycles' = Append(od_cycles, [phase |-> "encoding", frame |-> od_frameClock + 1,
                                               live |-> FALSE])
       ELSE /\ od_canvas' = 0
            /\ UNCHANGED od_cycles
    /\ od_frameClock' = od_frameClock + 1
    /\ lastOp' = [name |-> "captureTick"]
    /\ UNCHANGED << mounted, od_returnedImage, od_error, od_detectedObjects, od_captureInterval,
                    od_performanceMetrics, od_lastProcessedTime, od_isStreaming, od_srcObject,
                    od_orphans, od_starts, od_intervalRef, od_timers >>

\* captureAndSendFrame after toBlob gave its blob: records the time, sends the POST
OD_captureEncoded(k) ==
    /\ mounted = "OD"
    /\ k \in 1..Len(od_cycles)
    /\ od_cycles[k].phase = "encoding"
    /\ od_cycles' = [od_cycles EXCEPT ![k].phase = "fetching", ![k].live = od_isStreaming]
    /\ od_lastProcessedTime' = Some(od_cycles[k].frame)
    /\ lastOp' = [name |-> "captureEncoded", frame |-> od_cycles[k].frame]
    /\ UNCHANGED << mounted, od_returnedImage, od_error, od_detectedObjects, od_captureInterval,
                    od_performanceMetrics, od_isStreaming, od_srcObject, od_orphans, od_starts,
                    od_intervalRef, od_timers, od_canvas, od_frameClock >>

\* a reply handler with a sequencing token: the reply of a frame older than the newest
\* captured one is dropped
OD_captureResponse_Sequenced(k, outcome, data) ==
    /\ mounted = "OD"
    /\ k \in 1..Len(od_cycles)
    /\ od_cycles[k].phase = "fetching"
    /\ od_cycles' = RemoveAt(od_cycles, k)
    /\ IF outcome = "ok" /\ od_cycles[k].frame < od_canvas
       THEN UNCHANGED << od_performanceMetrics, od_detectedObjects, od_returnedImage, od_error >>
       ELSE IF outcome = "ok"
       THEN /\ od_performanceMetrics' =
                  IF parsePerformanceMetrics(data) # None
                  THEN parsePerformanceMetrics(data) ELSE od_performanceMetrics
            /\ od_detectedObjects' = DetectedObjectsOf(data)
            /\ od_returnedImage' = Some([frame |-> od_canvas,
                                          objects |-> DetectedObjectsOf(data),
                                          labels |-> LabelsOf(DetectedObjectsOf(data))])
            /\ od_error' = Null
       ELSE /\ od_error' = "Failed to send or receive frame from backend."
            /\ UNCHANGED << od_performanceMetrics, od_detectedObjects, od_returnedImage >>
    /\ lastOp' = [name |-> "captureResponse", outcome |-> outcome, frame |-> od_cycles[k].frame,
                   live |-> od_cycles[k].live,
                   data |-> IF outcome = "ok" THEN Some(data) ELSE None]
    /\ UNCHANGED << mounted, od_captureInterval, od_lastProcessedTime, od_isStreaming,
                    od_srcObject, od_orphans, od_starts, od_intervalRef, od_timers, od_canvas,
                    od_frameClock >>

\* captureAndSendFrame after the POST settles (lines 409-479); the annotated image is
\* drawn from the capture canvas as it is now
OD_captureResponse(k, outcome, data) ==
    /\ mounted = "OD"
    /\ k \in 1..Len(od_cycles)
    /\ od_cycles[k].phase = "fetching"
    /\ od_cycles' = RemoveAt(od_cycles, k)
    /\ IF outcome = "ok"
       THEN /\ od_performanceMetrics' =
                  IF parsePerformanceMetrics(data) # None
                  THEN parsePerformanceMetrics(data) ELSE od_performanceMetrics
            /\ od_detectedObjects' = DetectedObjectsOf(data)
            /\ od_returnedImage' = Some([frame |-> od_canvas,
                                          objects |-> DetectedObjectsOf(data),
                                          labels |-> LabelsOf(DetectedObjectsOf(data))])
            /\ od_error' = Null
       ELSE /\ od_error' = "Failed to send or receive frame from backend."
            /\ UNCHANGED << od_performanceMetrics, od_detectedObjects, od_returnedImage >>
    /\ lastOp' = [name |-> "captureResponse", outcome |-> outcome, frame |-> od_cycles[k].frame,
                   live |-> od_cycles[k].live,
                   data |-> IF outcome = "ok" THEN Some(data) ELSE None]
    /\ UNCHANGED << mounted, od_captureInterval, od_lastProcessedTime, od_isStreaming,
                    od_srcObject, od_orphans, od_starts, od_intervalRef, od_timers, od_canvas,
                    od_frameClock >>

\* bodies the detection service may send, as parsePerformanceMetrics reads them: the
\* performance_metrics object absent or with each field absent or set, and the summary
\* absent, empty, with or without timings
MetricsFields == { Null, "7ms" }
MetricsInputs ==
    { [performance_metrics |-> pm, summary |-> sm] :
        pm \in { None } \cup
               { Some([preprocess |-> a, inference |-> b, postprocess |-> c,
                       image_shape |-> d, summary |-> e]) :
                   a \in MetricsFields, b \in MetricsFields, c \in MetricsFields,
                   d \in { Null, "(1, 3, 480, 640)" }, e \in { Null, TimedSummary } },
        sm \in { Null, "", TimedSummary, PlainSummary } }

\* const metrics = parsePerformanceMetrics(data) (line 421), on its own
OD_parsePerformanceMetrics(data) ==
    /\ mounted = "OD"
    /\ lastOp' = [name |-> "parsePerformanceMetrics", data |-> data,
                  result |-> parsePerformanceMetrics(data)]
    /\ UNCHANGED << mounted, varsOD >>

\* the page switches to the other tab: the effect cleanup (lines 494-501) clears the
\* interval and calls stopWebcam. refAttached: videoRef.current still is the video
\* element when the cleanup runs (React detaches the refs of a deleted subtree in the
\* commit, passive cleanups run afterwards; older versions ran them before)
OD_unmount(refAttached) ==
    /\ mounted = "OD"
    /\ mounted' = "none"
    /\ od_timers' = IF od_intervalRef # None THEN od_timers - 1 ELSE od_timers
    /\ od_intervalRef' = IF refAttached /\ od_srcObject # Null THEN None ELSE od_intervalRef
    /\ od_orphans' = IF refAttached THEN od_orphans ELSE OD_liveStreams
    /\ od_srcObject' = Null
    /\ lastOp' = [name |-> "unmount", refAttached |-> refAttached]
    /\ UNCHANGED << od_returnedImage, od_error, od_detectedObjects, od_captureInterval,
                    od_performanceMetrics, od_lastProcessedTime, od_isStreaming, od_starts,
                    od_canvas, od_frameClock, od_cycles >>

\* ------------------------------------------------------------------ specifications
\* The page after construction, with one of the components mounted
InitOf(component) ==
    /\ mounted = component
    /\ lastOp = [name |-> "mount", alert |-> Null]
    /\ TM_Initial
    /\ IT_Initial
    /\ OD_Initial

\* TM, every handler
NextTM ==
    /\ UNCHANGED << varsIT, varsOD >>
    /\ \/ \E outcome \in Outcomes, data \in ServerLists : TM_fetchTasksResponse(outcome, data)
       \/ \E text \in Texts : TM_setTaskTitle(text)
       \/ \E task \in { TeaTask, BareTask } : TM_loadTask(task)
       \/ TM_addInstructionStep
       \/ \E i \in 1..MaxSteps : TM_removeInstructionStep(i)
       \/ \E i \in 1..MaxSteps, text \in Texts : TM_updateStepText(i, text)
       \/ TM_saveTask
       \/ \E outcome \in Outcomes : TM_savePostResponse(outcome)
       \/ \E outcome \in Outcomes, body \in ErrorBodies, data \in ServerLists :
             TM_saveRefreshResponse(outcome, body, data)
       \/ \E i \in 1..2, confirmDelete \in BOOLEAN : TM_deleteTask(i, confirmDelete)
       \/ \E k \in 1..MaxInflight, outcome \in Outcomes : TM_deleteResponse(k, outcome)
       \/ TM_submitTaskInstructions
       \/ \E outcome \in Outcomes : TM_submitResponse(outcome)

SpecTM == InitOf("TM") /\ [][NextTM]_vars

\* TM, editing the draft and sending it: every handler but deleteTask
NextTMForm ==
    /\ UNCHANGED << varsIT, varsOD >>
    /\ \/ \E outcome \in Outcomes, data \in ServerLists : TM_fetchTasksResponse(outcome, data)
       \/ \E text \in Texts : TM_setTaskTitle(text)
       \/ \E task \in { TeaTask, BareTask } : TM_loadTask(task)
       \/ TM_addInstructionStep
       \/ \E i \in 1..MaxSteps : TM_removeInstructionStep(i)
       \/ \E i \in 1..MaxSteps, text \in Texts : TM_updateStepText(i, text)
       \/ TM_saveTask
       \/ \E outcome \in Outcomes : TM_savePostResponse(outcome)
       \/ \E outcome \in Outcomes, body \in ErrorBodies, data \in ServerLists :
             TM_saveRefreshResponse(outcome, body, data)
       \/ TM_submitTaskInstructions
       \/ \E outcome \in Outcomes : TM_submitResponse(outcome)

\* IT, task setup with text-only steps: editing the draft, sending it, resetting
NextITForm ==
    /\ UNCHANGED << varsTM, varsOD >>
    /\ \/ \E text \in Texts : IT_setTaskTitle(text)
       \/ IT_addInstructionStep
       \/ \E i \in 1..MaxSteps : IT_removeInstructionStep(i)
       \/ \E i \in 1..MaxSteps, text \in Texts : IT_updateStepText(i, text)
       \/ IT_submitTaskInstructions
       \/ \E outcome \in Outcomes, data \in SetupReplies : IT_submitResponse(outcome, data)
       \/ IT_resetEverything
       \/ \E k \in 1..MaxInflight, outcome \in Outcomes : IT_resetResponse(k, outcome)

SpecITForm == InitOf("IT") /\ [][NextITForm]_vars

\* IT, task execution: a one-step task is typed and submitted, then tracked with the webcam
NextITTracking ==
    /\ UNCHANGED << varsTM, varsOD >>
    /\ \/ \E text \in Texts : IT_setTaskTitle(text)
       \/ \E i \in 1..MaxSteps, text \in Texts : IT_updateStepText(i, text)
       \/ IT_submitTaskInstructions
       \/ \E outcome \in Outcomes, data \in SetupReplies : IT_submitResponse(outcome, data)
       \/ IT_resetEverything
       \/ \E k \in 1..MaxInflight, outcome \in Outcomes : IT_resetResponse(k, outcome)
       \/ IT_startWebcam
       \/ \E outcome \in Outcomes : IT_startWebcamSettled(outcome)
       \/ IT_stopWebcam
       \/ \E contextOk \in BOOLEAN, hasFrame \in BOOLEAN : IT_captureAndSendImage(contextOk, hasFrame)
       \/ IT_captureEncoded
       \/ \E outcome \in Outcomes, data \in TrackReplies : IT_captureResponse(outcome, data)
       \/ IT_unmount

SpecITTracking == InitOf("IT") /\ [][NextITTracking]_vars

\* IT after the commit, with the continuations of a capture scheduled fairly: a pending
\* toBlob callback runs, and a pending POST settles
SpecITTrackingFair ==
    /\ SpecITTracking
    /\ WF_vars(UNCHANGED << varsTM, varsOD >> /\ IT_captureEncoded)
    /\ WF_vars(/\ UNCHANGED << varsTM, varsOD >>
               /\ \E outcome \in Outcomes, data \in TrackReplies :
                     IT_captureResponse(outcome, data))

\* OD, every handler
NextOD ==
    /\ UNCHANGED << varsTM, varsIT >>
    /\ \/ \E value \in IntervalInputs : OD_setCaptureInterval(value)
       \/ OD_startWebcam
       \/ \E k \in 1..MaxInflight, outcome \in Outcomes : OD_startWebcamSettled(k, outcome)
       \/ OD_stopWebcam
       \/ \E hasFrame \in BOOLEAN : OD_captureTick(hasFrame)
       \/ \E k \in 1..MaxInflight : OD_captureEncoded(k)
       \/ \E k \in 1..MaxInflight, outcome \in Outcomes, data \in DetectReplies :
             OD_captureResponse(k, outcome, data)
       \/ \E refAttached \in BOOLEAN : OD_unmount(refAttached)

SpecOD == InitOf("OD") /\ [][NextOD]_vars

\* IT, attaching images to the steps of a draft that only grows: steps are added and
\* given a text, images are attached and removed
NextITUpload ==
    /\ UNCHANGED << varsTM, varsOD >>
    /\ \/ IT_addInstructionStep
       \/ \E i \in 1..MaxSteps : IT_updateStepText(i, <<"a">>)
       \/ \E i \in 1..MaxSteps, file \in Files : IT_handleImageUpload(i, file)
       \/ \E k \in 1..MaxReads : IT_readerOnload(k)
       \/ \E i \in 1..MaxSteps : IT_removeStepImage(i)

SpecITUpload == InitOf("IT") /\ [][NextITUpload]_vars

\* OD, parsePerformanceMetrics applied to the bodies of MetricsInputs
NextParse ==
    /\ UNCHANGED << varsTM, varsIT >>
    /\ \E data \in MetricsInputs : OD_parsePerformanceMetrics(data)

SpecParse == InitOf("OD") /\ [][NextParse]_vars

\* the draft forms of both variants of the instruction tab
SpecForm == (InitOf("TM") \/ InitOf("IT")) /\ [][NextTMForm \/ NextITForm]_vars

\* ------------------------------------------------------------------ properties
\* the draft of the mounted instruction tab
Draft == IF mounted = "TM" THEN tm_instructionSteps ELSE it_instructionSteps
DraftTitle == IF mounted = "TM" THEN tm_taskTitle ELSE it_taskTitle

\* a text that is empty or holds white space only
OnlySpaces(text) == \A i \in 1..Len(text) : text[i] = SP

\* C1: in every reachable state of the editing UI the draft's step list holds at least
\* one step.
C1_StepListNonEmpty == Len(tm_instructionSteps) >= 1 /\ Len(it_instructionSteps) >= 1

\* C2: removeInstructionStep never leaves the draft with fewer than one step (it can be
\* called only on a draft that shows a step, so on a list of length >= 1).
C2_RemoveKeepsOneStep == lastOp.name = "removeInstructionStep" => Len(Draft) >= 1

\* C3: the steps of the draft have pairwise distinct ids.
C3_StepIdsDistinct ==
    \A i, j \in 1..Len(Draft) : i # j => Draft[i].id # Draft[j].id

\* C4: saveTask and submitTaskInstructions, called with a title or a step text that is
\* empty or white space only, send no request, set no in-flight flag and surface a
\* validation error.
C4_InvalidDraftIsNotSent ==
    (OnlySpaces(DraftTitle) \/ \E i \in 1..Len(Draft) : OnlySpaces(Draft[i].text)) =>
        /\ (mounted = "TM" /\ lastOp.name = "saveTask") =>
              /\ tm_savePhase = "idle"
              /\ ~tm_isSavingTask
              /\ lastOp.alert \in { "Please provide a task title",
                                    "All instruction steps must have text" }
        /\ (mounted = "TM" /\ lastOp.name = "submitTaskInstructions") =>
              /\ ~tm_submitPending
              /\ ~tm_isSubmittingTask
              /\ lastOp.alert \in { "Please provide a task title",
                                    "All instruction steps must have text" }
        /\ (mounted = "IT" /\ lastOp.name = "submitTaskInstructions") =>
              /\ it_submitPhase = "idle"
              /\ ~it_isSubmittingTask
              /\ it_error \in { "Please provide a task title",
                                "All instruction steps must have text" }

\* C4, witness: saveTask was called on a draft whose title is set and whose only step
\* holds a single space, and was refused.
C4_Witness ==
    /\ mounted = "TM"
    /\ lastOp.name = "saveTask"
    /\ tm_taskTitle = <<"a">>
    /\ tm_instructionSteps = << NewStep(1, <<SP>>) >>
    /\ lastOp.alert = "All instruction steps must have text"

\* C5: while the webcam of the detection tab is stopped (stopWebcam has returned and no
\* start is pending) no capture tick fires and no detection request is sent.
C5_NoCaptureAfterStop ==
    (mounted = "OD" /\ ~od_isStreaming /\ od_starts = <<>>) =>
        lastOp.name \notin { "captureTick", "captureEncoded" }

\* C6: a successful deleteTask(id) leaves the displayed list as it was just before the
\* reply was applied, minus the task with that id.
C6_DeleteRemovesExactlyThatTask ==
    [][ (lastOp'.name = "deleteResponse" /\ lastOp'.outcome = "ok") =>
            tm_tasks' = TaskArray(FilterOutId(tm_tasks.items, lastOp'.taskId)) ]_vars

\* C7: once a tab component is unmounted, no camera stream it acquired is live.
C7_UnmountReleasesCamera == mounted = "none" => (it_orphans = 0 /\ od_orphans = 0)

\* C8: the error banner and the success banner of the instruction tab are never both set.
C8_BannersExclusive == ~(it_error # Null /\ it_success # Null)

\* C9: when a remote call of submitTaskInstructions, saveTask, deleteTask or
\* resetEverything fails, the step that handles the failure leaves the title, the steps,
\* the task list, isTaskSubmitted and the response log as they were, surfaces an error
\* and leaves the call's in-flight flag false.
C9_FailedCallLeavesState ==
    [][ (lastOp'.name \in { "savePostResponse", "saveRefreshResponse", "deleteResponse",
                            "submitResponse", "resetResponse" }
         /\ lastOp'.outcome # "ok") =>
            /\ UNCHANGED << tm_taskTitle, tm_instructionSteps, tm_tasks, it_taskTitle,
                            it_instructionSteps, it_isTaskSubmitted, it_responses >>
            /\ mounted = "TM" => lastOp'.alert # Null
            /\ mounted = "IT" => it_error' # Null
            /\ lastOp'.name \in { "savePostResponse", "saveRefreshResponse" } =>
                  ~tm_isSavingTask'
            /\ (mounted = "TM" /\ lastOp'.name = "submitResponse") => ~tm_isSubmittingTask'
            /\ (mounted = "IT" /\ lastOp'.name = "submitResponse") => ~it_isSubmittingTask'
      ]_vars

\* C10: after loadTask(task) the draft title is the task's title and the draft holds
\* exactly the task's steps, in order, as texts of steps without image.
C10_LoadTaskReplacesDraft ==
    lastOp.name = "loadTask" =>
        /\ tm_taskTitle = lastOp.task.title
        /\ Len(tm_instructionSteps) = Len(lastOp.task.steps)
        /\ \A i \in 1..Len(tm_instructionSteps) :
              /\ tm_instructionSteps[i].text = lastOp.task.steps[i]
              /\ tm_instructionSteps[i].image = NoImage

\* C10, witness: the two-step task was loaded into a draft.
C10_Witness ==
    /\ lastOp.name = "loadTask"
    /\ lastOp.task = TeaTask
    /\ tm_taskTitle = <<"a">>
    /\ StepTexts(tm_instructionSteps) = << <<"a">>, <<"b">> >>

\* C11: handleImageUpload with a file of more than 5242880 bytes surfaces an error, starts
\* no file read and leaves the step list (so the step's unset image) unchanged; with a
\* file of at most 5242880 bytes it starts one read and sets no error.
C11_OversizeImageRejected ==
    [][ lastOp'.name = "handleImageUpload" =>
          IF lastOp'.size > 5242880
          THEN /\ it_error' = "Image size must be less than 5MB"
               /\ UNCHANGED << it_reads, it_instructionSteps >>
          ELSE /\ Len(it_reads') = Len(it_reads) + 1
               /\ UNCHANGED << it_error, it_instructionSteps >> ]_vars

\* C11, witness: a file of 5242881 bytes was refused while no read is in flight and
\* the only step has no image.
C11_Witness ==
    /\ lastOp.name = "handleImageUpload"
    /\ lastOp.size = 5242881
    /\ it_error = "Image size must be less than 5MB"
    /\ it_reads = <<>>
    /\ Len(it_instructionSteps) = 1
    /\ it_instructionSteps[1].image = NoImage

\* C12: a successful submitTaskInstructions or saveTask leaves the draft's title and steps
\* unchanged and leaves the draft editable and resubmittable: the Task Setup form, which
\* the instruction tab renders only while isTaskSubmitted is false, is still shown.
C12_CommitKeepsDraftEditable ==
    [][ (lastOp'.name \in { "savePostResponse", "submitResponse" } /\ lastOp'.outcome = "ok") =>
            /\ UNCHANGED << tm_taskTitle, tm_instructionSteps, it_taskTitle,
                            it_instructionSteps >>
            /\ mounted = "IT" => ~it_isTaskSubmitted' ]_vars

\* C13: a step that applies updateStepText, an image attach (reader.onload) or
\* removeStepImage keeps the number, order and ids of the steps, changes at most one step,
\* and changes only the text (updateStepText) or only the image (the other two).
C13_FieldMutationsAreLocal ==
    [][ lastOp'.name \in { "updateStepText", "readerOnload", "removeStepImage" } =>
            /\ Len(it_instructionSteps') = Len(it_instructionSteps)
            /\ \A i \in 1..Len(it_instructionSteps) :
                  /\ it_instructionSteps'[i].id = it_instructionSteps[i].id
                  /\ lastOp'.name = "updateStepText" =>
                        it_instructionSteps'[i].image = it_instructionSteps[i].image
                  /\ lastOp'.name # "updateStepText" =>
                        it_instructionSteps'[i].text = it_instructionSteps[i].text
            /\ \E j \in 1..Len(it_instructionSteps) :
                  \A i \in 1..Len(it_instructionSteps) :
                      i # j => it_instructionSteps'[i] = it_instructionSteps[i] ]_vars

\* C14: removeInstructionStep on a draft of exactly one step leaves the step list as it is
\* and surfaces a warning, in both variants of the instruction tab.
C14_RemovingOnlyStepWarns ==
    [][ (lastOp'.name = "removeInstructionStep" /\ Len(Draft) = 1) =>
            /\ UNCHANGED << tm_instructionSteps, it_instructionSteps >>
            /\ mounted = "TM" => lastOp'.alert # Null
            /\ mounted = "IT" => it_error' = "You must have at least one instruction step"
      ]_vars

\* C15: when getUserMedia of startWebcam succeeds in a mounted tab, the stream is bound
\* as the source of the video element and the active flag is true.
C15_AcquiredStreamIsBound ==
    (lastOp.name = "startWebcamSettled" /\ lastOp.outcome = "ok" /\ mounted # "none") =>
        IF mounted = "IT"
        THEN it_srcObject = "stream" /\ it_isWebcamActive
        ELSE od_srcObject = "stream" /\ od_isStreaming

\* C16: stopWebcam called while the video element holds no stream changes no state
\* variable of its component and stops no stream, so a second stopWebcam after one that
\* released the stream leaves the state as the first left it.
C16_StopWebcamIdempotent ==
    [][ /\ (lastOp'.name = "stopWebcam" /\ mounted = "IT" /\ it_srcObject = Null) =>
              UNCHANGED varsIT
        /\ (lastOp'.name = "stopWebcam" /\ mounted = "OD" /\ od_srcObject = Null) =>
              UNCHANGED varsOD ]_vars

\* C16, witness: stopWebcam ran in the instruction tab while the video element held no
\* stream; the active flag it found set is still set.
C16_Witness ==
    /\ mounted = "IT"
    /\ lastOp.name = "stopWebcam"
    /\ it_srcObject = Null
    /\ it_isWebcamActive

\* C17: a successful tracking reply puts exactly one new item at the head of the response
\* log and keeps the items it held, in order; and every step other than a reset keeps the
\* items the log held, in order, below at most one new head.
C17_LogOnlyGrowsAtHead ==
    [][ /\ (lastOp'.name = "captureResponse" /\ lastOp'.outcome = "ok") =>
              /\ Len(it_responses') = Len(it_responses) + 1
              /\ Tail(it_responses') = it_responses
        /\ lastOp'.name # "resetResponse" =>
              \/ it_responses' = it_responses
              \/ /\ it_responses' # <<>>
                 /\ Tail(it_responses') = it_responses ]_vars

\* C18: the capture interval and the period of the timer that startFrameCapture set are
\* always within 500..10000 ms, and the interval changes only while the webcam is stopped.
C18_CaptureIntervalInRange ==
    /\ [](/\ od_captureInterval \in 500..10000
          /\ od_intervalRef # None => od_intervalRef[1] \in 500..10000)
    /\ [][od_captureInterval' # od_captureInterval => ~od_isStreaming]_vars

C21_MetricsReplacedPerResponse ==
    (lastOp.name = "captureResponse" /\ lastOp.outcome = "ok") =>
        od_performanceMetrics = parsePerformanceMetrics(lastOp.data[1])

\* C22: in the result of parsePerformanceMetrics each of preprocess, inference and
\* postprocess is the structured field when the reply has it, and otherwise the value
\* extracted from the summary when the summary carries the three timings.
C22_SummaryFillsAbsentTimings ==
    (lastOp.name = "parsePerformanceMetrics" /\ lastOp.result # None) =>
        LET data == lastOp.data
            result == lastOp.result[1]
            metrics == IF data.performance_metrics = None THEN NoMetrics
                       ELSE data.performance_metrics[1]
            summary == IF metrics.summary \notin { Null, "" } THEN metrics.summary
                       ELSE data.summary
            expected(field, extracted) ==
                IF field \notin { Null, "" } THEN field
                ELSE IF summary = TimedSummary THEN extracted
                ELSE "0ms"
        IN  /\ result.preprocess = expected(metrics.preprocess, "12ms")
            /\ result.inference = expected(metrics.inference, "34ms")
            /\ result.postprocess = expected(metrics.postprocess, "56ms")

\* C23: after a 2xx detection reply with n bounding boxes is applied, detectedObjects has
\* n elements, the i-th with id i and the reply's i-th box, its i-th confidence (0 when
\* missing) and its i-th class ("Unknown" when missing); nothing else is in the list.
C23_ObjectsBuiltFromResponse ==
    (lastOp.name = "captureResponse" /\ lastOp.outcome = "ok") =>
        LET data == lastOp.data[1]
            n == Len(data.bounding_boxes)
            hasConfidence(i) == data.confidences # None /\ i <= Len(data.confidences[1])
            hasClass(i) == /\ data.classes # None
                           /\ i <= Len(data.classes[1])
                           /\ data.classes[1][i] \notin { Null, "" }
        IN  /\ Len(od_detectedObjects) = n
            /\ \A i \in 1..n :
                  /\ od_detectedObjects[i].id = i
                  /\ od_detectedObjects[i].box = data.bounding_boxes[i]
                  /\ od_detectedObjects[i].confidence =
                        IF hasConfidence(i) THEN data.confidences[1][i] ELSE 0
                  /\ od_detectedObjects[i].class =
                        IF hasClass(i) THEN data.classes[1][i] ELSE "Unknown"

\* C23, witness: a reply with two boxes and metrics was applied earlier; the reply applied
\* last has one box and neither confidences nor classes, and the list is that one object.
C23_Witness ==
    /\ lastOp.name = "captureResponse"
    /\ lastOp.outcome = "ok"
    /\ od_performanceMetrics # None
    /\ lastOp.data[1].performance_metrics = None
    /\ od_detectedObjects =
          << [id |-> 1, box |-> <<5, 20, 40, 60>>, confidence |-> 0, class |-> "Unknown"] >>

\* C24: in the annotated image every object has one label; its text starts with the class
\* when the class is not "Unknown" and with "Object <id>" otherwise, and it is drawn at x1,
\* at y1 - 5 when y1 > 20 and at y1 + 20 when y1 <= 20.
C24_LabelTextAndPosition ==
    od_returnedImage # None =>
        LET objects == od_returnedImage[1].objects
            labels == od_returnedImage[1].labels
        IN  /\ Len(labels) = Len(objects)
            /\ \A i \in 1..Len(objects) :
                  LET x1 == objects[i].box[1]
                      y1 == objects[i].box[2]
                  IN  /\ objects[i].class # "Unknown" =>
                            labels[i].words[1] = objects[i].class
                      /\ objects[i].class = "Unknown" =>
                            /\ Len(labels[i].words) = 2
                            /\ labels[i].words[1] = "Object"
                            /\ labels[i].words[2] = ToString(objects[i].id)
                      /\ labels[i].x = x1
                      /\ y1 > 20 => labels[i].y = y1 - 5
                      /\ y1 <= 20 => labels[i].y = y1 + 20

\* C24, witness: after an earlier reply with metrics, the image drawn last shows one
\* unclassed object whose box starts exactly at y1 = 20: its label is "Object 1", at
\* x1 = 5 and y1 + 20 = 40.
C24_Witness ==
    /\ lastOp.name = "captureResponse"
    /\ lastOp.outcome = "ok"
    /\ od_returnedImage # None
    /\ od_returnedImage[1].labels =
          << [words |-> << "Object", "1" >>, percent |-> 0, x |-> 5, y |-> 40] >>
    /\ od_performanceMetrics # None

\* C25: right after resetEverything got its 2xx the draft is the initial one,
\* isTaskSubmitted is false, the log is empty, the webcam is inactive and no stream is live.
C25_ResetLeavesCleanState ==
    (lastOp.name = "resetResponse" /\ lastOp.outcome = "ok") =>
        /\ it_taskTitle = <<>>
        /\ it_instructionSteps = InitialSteps
        /\ ~it_isTaskSubmitted
        /\ it_responses = <<>>
        /\ ~it_isWebcamActive
        /\ IT_liveStreams = 0

\* C26: the annotated image of a 2xx reply is drawn on the frame that was uploaded in the
\* request of that reply.
C26_AnnotatedFrameIsUploadedFrame ==
    (lastOp.name = "captureResponse" /\ lastOp.outcome = "ok") =>
        /\ od_returnedImage # None
        /\ od_returnedImage[1].frame = lastOp.frame

\* C27: while the tab is mounted, whenever isCapturing is true it later becomes false.
C27_CaptureEventuallyEnds ==
    (mounted = "IT" /\ it_isCapturing) ~> (mounted # "IT" \/ ~it_isCapturing)

\* C28: a capture is pending exactly while isCapturing is true, and a step of
\* captureAndSendImage that starts a capture is taken with no capture pending.
C28_OneTrackingRequest ==
    /\ [](it_capturePhase # "idle" <=> it_isCapturing)
    /\ [][ (lastOp'.name = "captureAndSendImage" /\ it_capturePhase' \in { "encoding", "no_blob" })
              => (it_capturePhase = "idle" /\ ~it_isCapturing) ]_vars

\* C28, witness: the webcam was stopped and started again while a tracking request is in
\* flight; isCapturing is still true, which keeps Capture & Send disabled.
C28_Witness ==
    /\ mounted = "IT"
    /\ lastOp.name = "startWebcamSettled"
    /\ it_isWebcamActive
    /\ it_isTaskSubmitted
    /\ it_capturePhase = "fetching"
    /\ it_isCapturing

\* C29: the detection tab has at most one capture timer; a timer exists only while a
\* stream is bound and isStreaming is true; right after stopWebcam and from the unmount on
\* there is none.
C29_OneTimerWhileStreaming ==
    /\ od_timers <= 1
    /\ od_timers > 0 => (od_srcObject # Null /\ od_isStreaming)
    /\ lastOp.name = "stopWebcam" => od_timers = 0
    /\ mounted = "none" => od_timers = 0

\* C29, witness: Start Webcam was triggered twice before the first acquisition resolved;
\* both have resolved, the second stream replaced the first, and one timer runs.
C29_Witness ==
    /\ mounted = "OD"
    /\ lastOp.name = "startWebcamSettled"
    /\ lastOp.outcome = "ok"
    /\ od_starts = <<>>
    /\ od_orphans = 1
    /\ od_isStreaming
    /\ od_timers = 1

\* C30: while the detection tab is mounted, at most one acquired stream has live tracks
\* and it is the one bound to the video element.
C30_OnlyBoundStreamIsLive ==
    mounted = "OD" => (OD_liveStreams <= 1 /\ od_orphans = 0)

====
